---------------------------- MODULE Spec2Model ----------------------------
(***************************************************************************)
(* A model of saami_vocabulator.py: the similarity function, the two HTML  *)
(* readers, the flat-text word list codec and the threshold loop.          *)
(*                                                                         *)
(* Strings are sequences of one-character strings, so that strip, split    *)
(* and slicing are computed as Python computes them.  An optional string   *)
(* (the result of dict.get) is None or Some(s).  A similarity ratio is the *)
(* pair <<numerator, denominator>> of the float the code computes, and a   *)
(* threshold is the integer number of hundredths of the float literal.     *)
(*                                                                         *)
(* Each part of the program has its own specification over the one set of  *)
(* variables; the variables of the other parts stay at their idle values.  *)
(***************************************************************************)
EXTENDS Integers, Sequences, FiniteSets, TLC

VARIABLES
    \* similar(a, b) called both ways round
    sim_a, sim_b, sim_ab, sim_ba,
    \* the threshold loop (module level, lines 256-335)
    psm_words, nsm_words, threshholds,
    pite_matches_so_far, north_matches_so_far,
    psm_pos_counter, nsm_pos_counter,
    psm_words_matched, nsm_words_matched,
    pite_new_counter, north_new_counter,
    f,              \* what has been written to the report file
    threshold_i,    \* index in threshholds of similarity_threshold
    entry_i,        \* index of entry in the list being looped over
    loop_pc,        \* where the script is
    \* a PiteWordlistReader and the call of its feed
    reading_entry, entries, line_num, last_line,
    popped,         \* what entries.pop() returned last (feed drops it)
    feed_pc,        \* where the call of feed is
    \* the class LuleDictReader and its instances
    LuleDictReader_entries,     \* the class attribute entries
    lule_made,                  \* the instances constructed so far
    lule_reading_entry, td_num, spans_seen,     \* per instance
    lule_skipped,   \* the instance whose handle_data ran line 163 as the
                    \* latest event, 0 when the latest event did not
    lule_pc,
    \* writeWordlistFile and readWordlistFile on one file
    word_list,      \* the list handed to writeWordlistFile
    file,           \* the characters of the file
    read_list,      \* the list readWordlistFile returned
    codec_pc,
    \* remove_repeats called on a list, and again on what it returned
    rr_input, rr_output, rr_again, rr_pc

simVars == <<sim_a, sim_b, sim_ab, sim_ba>>

loopVars == <<psm_words, nsm_words, threshholds,
              pite_matches_so_far, north_matches_so_far,
              psm_pos_counter, nsm_pos_counter,
              psm_words_matched, nsm_words_matched,
              pite_new_counter, north_new_counter,
              f, threshold_i, entry_i, loop_pc>>

piteVars == <<reading_entry, entries, line_num, last_line, popped, feed_pc>>

luleVars == <<LuleDictReader_entries, lule_made, lule_reading_entry,
              td_num, spans_seen, lule_skipped, lule_pc>>

codecVars == <<word_list, file, read_list, codec_pc>>

repeatVars == <<rr_input, rr_output, rr_again, rr_pc>>

vars == <<simVars, loopVars, piteVars, luleVars, codecVars, repeatVars>>

---------------------------------------------------------------------------
(* Bounds of the model *)

\* longest string handed to similar in the specification of similar
MaxStrLen == 4

\* most entries in the Pite Saami word list of the threshold loop
MaxPiteWords == 2

\* most entries in the North Saami word list of the threshold loop
MaxNorthWords == 1

\* most entries a PiteWordlistReader appends during one feed
MaxPiteEntries == 3

\* most non-whitespace texts the PiteWordlistReader counts in one block
MaxPiteLines == 4

\* most entries appended to LuleDictReader.entries
MaxLuleEntries == 2

\* highest td_num and spans_seen a LuleDictReader counts up to
MaxLuleCount == 2

\* most entries in the list handed to writeWordlistFile
MaxCodecWords == 2

\* most characters in a file that readWordlistFile finds on disk
MaxFileLen == 6
MaxRepeatsLen == 4

---------------------------------------------------------------------------
(* Python values *)

\* the absent value that dict.get returns for a missing key
None == <<>>

\* a present string s, as dict.get or an attribute read returns it
Some(s) == <<s>>

\* all strings over the characters of alphabet, of length 0..n
Strings(alphabet, n) == UNION {[1..k -> alphabet] : k \in 0..n}

\* the value a similarity call has not yet produced
Unset == <<>>

---------------------------------------------------------------------------
(* Python string methods *)

\* the characters str.strip() removes
Whitespace == {" ", "\t", "\n"}

MinOf(S) == CHOOSE x \in S : \A y \in S : x <= y

MaxOf(S) == CHOOSE x \in S : \A y \in S : x >= y

\* s.strip(chars): the characters of chars are cut from both ends
strip_chars(s, chars) ==
    LET keep == {k \in 1..Len(s) : s[k] \notin chars}
    IN  IF keep = {} THEN <<>> ELSE SubSeq(s, MinOf(keep), MaxOf(keep))

\* s.strip()
strip(s) == strip_chars(s, Whitespace)

\* s.split(c)[0]: what comes before the first c, all of s when there is none
split_first(s, c) ==
    LET hits == {k \in 1..Len(s) : s[k] = c}
    IN  IF hits = {} THEN s ELSE SubSeq(s, 1, MinOf(hits) - 1)

\* s.split(c, maxsplit)
RECURSIVE split(_, _, _)
split(s, c, maxsplit) ==
    LET hits == {k \in 1..Len(s) : s[k] = c}
    IN  IF maxsplit = 0 \/ hits = {} THEN <<s>>
        ELSE <<SubSeq(s, 1, MinOf(hits) - 1)>>
             \o split(SubSeq(s, MinOf(hits) + 1, Len(s)), c, maxsplit - 1)

\* f.readlines(): the lines of the file, each with its newline, the last one
\* without when the file does not end in one
RECURSIVE readlines(_)
readlines(s) ==
    LET hits == {k \in 1..Len(s) : s[k] = "\n"}
    IN  IF s = <<>> THEN <<>>
        ELSE IF hits = {} THEN <<s>>
        ELSE <<SubSeq(s, 1, MinOf(hits))>>
             \o readlines(SubSeq(s, MinOf(hits) + 1, Len(s)))

\* s[:n]
prefix(s, n) == SubSeq(s, 1, IF Len(s) < n THEN Len(s) ELSE n)

---------------------------------------------------------------------------
(* similar: difflib.SequenceMatcher(None, a, b).ratio(), and the None test *)

\* The common blocks a[i:i+k] == b[j:j+k] inside a[alo:ahi] and b[blo:bhi]
\* (0-based, half-open, as in difflib).
CommonBlocks(a, b, alo, ahi, blo, bhi) ==
    {x \in (alo..(ahi - 1)) \X (blo..(bhi - 1)) \X (1..(ahi - alo)) :
        /\ x[1] + x[3] <= ahi
        /\ x[2] + x[3] <= bhi
        /\ \A d \in 0..(x[3] - 1) : a[x[1] + d + 1] = b[x[2] + d + 1]}

\* x is the block find_longest_match prefers to y: longer, then starting
\* earlier in a, then starting earlier in b.
PrefersBlock(x, y) ==
    \/ x[3] > y[3]
    \/ x[3] = y[3] /\ x[1] < y[1]
    \/ x[3] = y[3] /\ x[1] = y[1] /\ x[2] <= y[2]

\* SequenceMatcher.find_longest_match(alo, ahi, blo, bhi) with no junk:
\* <<i, j, k>>, and <<alo, blo, 0>> when nothing matches.
find_longest_match(a, b, alo, ahi, blo, bhi) ==
    LET blocks == CommonBlocks(a, b, alo, ahi, blo, bhi)
    IN  IF blocks = {} THEN <<alo, blo, 0>>
        ELSE CHOOSE x \in blocks : \A y \in blocks : PrefersBlock(x, y)

\* The sum of the sizes of SequenceMatcher.get_matching_blocks(): the
\* longest block, then the same to its left and to its right.
RECURSIVE matching_size(_, _, _, _, _, _)
matching_size(a, b, alo, ahi, blo, bhi) ==
    LET m == find_longest_match(a, b, alo, ahi, blo, bhi)
        i == m[1]
        j == m[2]
        k == m[3]
    IN  IF k = 0 THEN 0
        ELSE k
             + (IF alo < i /\ blo < j
                THEN matching_size(a, b, alo, i, blo, j) ELSE 0)
             + (IF i + k < ahi /\ j + k < bhi
                THEN matching_size(a, b, i + k, ahi, j + k, bhi) ELSE 0)

\* matches / length, each match counted once and not once a string
ratio_unscaled(a, b) ==
    LET length == Len(a) + Len(b)
    IN  IF length > 0
        THEN <<matching_size(a, b, 0, Len(a), 0, Len(b)), length>>
        ELSE <<1, 1>>

\* SequenceMatcher.ratio(): 2.0 * matches / length, and 1.0 when both
\* strings are empty.
ratio(a, b) ==
    LET length == Len(a) + Len(b)
    IN  IF length > 0
        THEN <<2 * matching_size(a, b, 0, Len(a), 0, Len(b)), length>>
        ELSE <<1, 1>>

\* similar that scores a missing string as a full match
similar_none_matches(a, b) ==
    IF ~(None \in {a, b}) THEN ratio(a[1], b[1]) ELSE <<1, 1>>

\* similar(a, b) of the source; a and b are None or Some(string).
similar(a, b) ==
    IF ~(None \in {a, b}) THEN ratio(a[1], b[1]) ELSE <<0, 1>>

\* score >= similarity_threshold, the threshold in hundredths
ScoreAtLeast(score, threshold) == score[1] * 100 >= threshold * score[2]

---------------------------------------------------------------------------
(* similar called on two arguments, both ways round *)

SimChars == {"a", "b"}

SimArgs == {None} \cup {Some(s) : s \in Strings(SimChars, MaxStrLen)}

\* the call similar(a, b)
CallSimilar ==
    /\ sim_ab = Unset
    /\ sim_ab' = similar(sim_a, sim_b)
    /\ UNCHANGED <<sim_a, sim_b, sim_ba>>
    /\ UNCHANGED <<loopVars, piteVars, luleVars, codecVars, repeatVars>>

\* the call similar(b, a)
CallSimilarSwapped ==
    /\ sim_ba = Unset
    /\ sim_ba' = similar(sim_b, sim_a)
    /\ UNCHANGED <<sim_a, sim_b, sim_ab>>
    /\ UNCHANGED <<loopVars, piteVars, luleVars, codecVars, repeatVars>>

---------------------------------------------------------------------------
(* remove_repeats *)

\* the tuples the lists handed to remove_repeats are made of
RepeatItems == {<<"a", 1>>, <<"b", 2>>, <<"c", 3>>}

\* item in new_list, the tuples compared element by element
ItemIn(item, new_list) == \E k \in 1..Len(new_list) : new_list[k] = item

\* the list without the elements that occur again later in it
RECURSIVE remove_repeats_keep_last(_)
remove_repeats_keep_last(input_list) ==
    IF input_list = <<>> THEN <<>>
    ELSE IF ItemIn(Head(input_list), Tail(input_list))
         THEN remove_repeats_keep_last(Tail(input_list))
         ELSE <<Head(input_list)>> \o remove_repeats_keep_last(Tail(input_list))

\* lines 25-27: the loop over what is left of input_list, new_list so far
RECURSIVE remove_repeats_loop(_, _)
remove_repeats_loop(input_list, new_list) ==
    IF input_list = <<>> THEN new_list
    ELSE remove_repeats_loop(Tail(input_list),
             IF ~ItemIn(Head(input_list), new_list)
             THEN Append(new_list, Head(input_list))
             ELSE new_list)

\* remove_repeats(input_list) of the source
remove_repeats(input_list) == remove_repeats_loop(input_list, <<>>)

\* the call remove_repeats(rr_input)
CallRemoveRepeats ==
    /\ rr_pc = "start"
    /\ rr_output' = remove_repeats(rr_input)
    /\ rr_pc' = "once"
    /\ UNCHANGED <<rr_input, rr_again>>
    /\ UNCHANGED <<simVars, loopVars, piteVars, luleVars, codecVars>>

\* remove_repeats called on the list the first call returned
CallRemoveRepeatsAgain ==
    /\ rr_pc = "once"
    /\ rr_again' = remove_repeats(rr_output)
    /\ rr_pc' = "twice"
    /\ UNCHANGED <<rr_input, rr_output>>
    /\ UNCHANGED <<simVars, loopVars, piteVars, luleVars, codecVars>>

---------------------------------------------------------------------------
(* DictEntry, and the vocabulary of parts of speech *)

Noun == <<"N", "o", "u", "n">>
Verb == <<"V", "e", "r", "b">>
Other == <<"O", "t", "h", "e", "r">>
ProperNoun == <<"P", "r", "o", "p", "e", "r", " ", "n", "o", "u", "n">>

\* the '???' that the report prints for a missing translation
QQQ == <<"?", "?", "?">>

\* the language codes that key DictEntry.translations
Langs == {"swe", "nor", "eng"}

\* DictEntry(): word and pos are the class defaults "", translations is {}
DictEntry == [word |-> <<>>, pos |-> <<>>, translations |-> <<>>]

\* d.get(key): None when the key is absent
Get(d, key) == IF key \in DOMAIN d THEN Some(d[key]) ELSE None

\* d.get(key, default)
GetDefault(d, key, default) == IF key \in DOMAIN d THEN d[key] ELSE default

\* d[key] = value
SetItem(d, key, value) ==
    [k \in (DOMAIN d) \cup {key} |-> IF k = key THEN value ELSE d[k]]

\* equality of all the attributes, object's default compared by value
DictEntryEqAllAttributes(x, y) == x = y

\* DictEntry.__eq__: same word, whatever the other attributes
DictEntryEq(x, y) == x.word = y.word

\* membership decided by equality of all the attributes
EntryInByAttributes(entry, list) ==
    \E k \in 1..Len(list) : list[k] = entry

\* entry in list, decided by DictEntry.__eq__
EntryIn(entry, list) ==
    \E k \in 1..Len(list) : DictEntryEq(list[k], entry)

---------------------------------------------------------------------------
(* The threshold loop *)

\* threshholds of the source, in hundredths
Threshholds == <<100, 95, 90, 80, 70, 60, 50>>

similarity_threshold == threshholds[threshold_i]

\* the test of line 297 without its part-of-speech condition
PiteMatchesAnyPos(entry, threshold) ==
    ScoreAtLeast(similar(Some(entry.word), Get(entry.translations, "swe")),
                 threshold)

\* the test of line 297: the Pite Saami word against its Swedish translation
PiteMatches(entry, threshold) ==
    /\ ScoreAtLeast(similar(Some(entry.word), Get(entry.translations, "swe")),
                    threshold)
    /\ entry.pos # ProperNoun

\* the test of line 317: the North Saami word against its Norwegian one
NorthMatches(entry, threshold) ==
    /\ ScoreAtLeast(similar(Some(entry.word), Get(entry.translations, "nor")),
                    threshold)
    /\ entry.pos # ProperNoun

\* counter[pos] = 1 whether the key is new or known
CountPosOnce(counter, pos) ==
    IF \E k \in 1..Len(counter) : counter[k].pos = pos
    THEN [k \in 1..Len(counter) |->
            IF counter[k].pos = pos
            THEN [pos |-> pos, n |-> 1]
            ELSE counter[k]]
    ELSE Append(counter, [pos |-> pos, n |-> 1])

\* A pos counter is the dict of the source as the sequence of its items in
\* insertion order.  counter[pos] = 1 for a new key, += 1 for a known one.
CountPos(counter, pos) ==
    IF \E k \in 1..Len(counter) : counter[k].pos = pos
    THEN [k \in 1..Len(counter) |->
            IF counter[k].pos = pos
            THEN [pos |-> pos, n |-> counter[k].n + 1]
            ELSE counter[k]]
    ELSE Append(counter, [pos |-> pos, n |-> 1])

\* (n / d) * 100 as '{:.2f}' prints it: hundredths of a percent, to the
\* nearest; d is not 0.
Percent(n, d) == (2 * n * 10000 + d) \div (2 * d)

\* The lines of the report.  A line carries the dialect and the threshold
\* of the section of the report it is written in.
SeparatorLine == [kind |-> "separator"]

HeaderLine(dialect) == [kind |-> "header", dialect |-> dialect]

NewLine(dialect, threshold, entry, lang) ==
    [kind |-> "new", dialect |-> dialect, threshold |-> threshold,
     word |-> entry.word,
     translation |-> GetDefault(entry.translations, lang, QQQ),
     pos |-> entry.pos,
     eng |-> GetDefault(entry.translations, "eng", QQQ)]

SummaryLine(dialect, threshold, matched, total, new) ==
    [kind |-> "summary", dialect |-> dialect, threshold |-> threshold,
     matched |-> matched, percent |-> Percent(matched, total), new |-> new]

PosLines(counter, matched) ==
    [k \in 1..Len(counter) |->
        [kind |-> "pos", pos |-> counter[k].pos, n |-> counter[k].n,
         percent |-> Percent(counter[k].n, matched)]]

BlankLine == [kind |-> "blank"]

\* The summary of lines 308-312 and 328-333 divides by the length of the word
\* list, and for each counted pos by the number of words matched.
SummaryDividesByZero(total, matched, counter) ==
    \/ total = 0
    \/ Len(counter) > 0 /\ matched = 0

\* lines 283-294: the per-threshold variables are reset, the block begins
BeginThreshold ==
    /\ loop_pc = "for"
    /\ threshold_i <= Len(threshholds)
    /\ psm_pos_counter' = <<>>
    /\ nsm_pos_counter' = <<>>
    /\ psm_words_matched' = <<>>
    /\ nsm_words_matched' = <<>>
    /\ pite_new_counter' = 0
    /\ north_new_counter' = 0
    /\ f' = f \o <<SeparatorLine, HeaderLine("pite")>>
    /\ entry_i' = 1
    /\ loop_pc' = "pite"
    /\ UNCHANGED <<psm_words, nsm_words, threshholds, threshold_i,
                   pite_matches_so_far, north_matches_so_far>>

\* lines 295-307: one pass of the loop over psm_words
PiteEntry ==
    /\ loop_pc = "pite"
    /\ entry_i <= Len(psm_words)
    /\ LET entry == psm_words[entry_i]
           matched == PiteMatches(entry, similarity_threshold)
           new == matched /\ ~EntryIn(entry, pite_matches_so_far)
       IN  /\ psm_words_matched' =
                IF matched THEN Append(psm_words_matched, entry.word)
                ELSE psm_words_matched
           /\ pite_matches_so_far' =
                IF new THEN Append(pite_matches_so_far, entry)
                ELSE pite_matches_so_far
           /\ pite_new_counter' =
                IF new THEN pite_new_counter + 1 ELSE pite_new_counter
           /\ f' = IF new
                   THEN Append(f, NewLine("pite", similarity_threshold,
                                          entry, "swe"))
                   ELSE f
           /\ psm_pos_counter' =
                IF matched THEN CountPos(psm_pos_counter, entry.pos)
                ELSE psm_pos_counter
    /\ entry_i' = entry_i + 1
    /\ UNCHANGED <<psm_words, nsm_words, threshholds, threshold_i, loop_pc,
                   north_matches_so_far, nsm_pos_counter, nsm_words_matched,
                   north_new_counter>>

\* lines 308-314: the Pite Saami summary, then the North Saami header
PiteSummary ==
    /\ loop_pc = "pite"
    /\ entry_i > Len(psm_words)
    /\ IF SummaryDividesByZero(Len(psm_words), Len(psm_words_matched),
                               psm_pos_counter)
       THEN /\ loop_pc' = "ZeroDivisionError"
            /\ UNCHANGED <<f, entry_i>>
       ELSE /\ f' = f
                    \o <<SummaryLine("pite", similarity_threshold,
                                     Len(psm_words_matched), Len(psm_words),
                                     pite_new_counter)>>
                    \o PosLines(psm_pos_counter, Len(psm_words_matched))
                    \o <<BlankLine, HeaderLine("north")>>
            /\ entry_i' = 1
            /\ loop_pc' = "north"
    /\ UNCHANGED <<psm_words, nsm_words, threshholds, threshold_i,
                   pite_matches_so_far, north_matches_so_far,
                   psm_pos_counter, nsm_pos_counter, psm_words_matched,
                   nsm_words_matched, pite_new_counter, north_new_counter>>

\* lines 315-327: one pass of the loop over nsm_words
NorthEntry ==
    /\ loop_pc = "north"
    /\ entry_i <= Len(nsm_words)
    /\ LET entry == nsm_words[entry_i]
           matched == NorthMatches(entry, similarity_threshold)
           new == matched /\ ~EntryIn(entry, north_matches_so_far)
       IN  /\ nsm_words_matched' =
                IF matched THEN Append(nsm_words_matched, entry)
                ELSE nsm_words_matched
           /\ north_matches_so_far' =
                IF new THEN Append(north_matches_so_far, entry)
                ELSE north_matches_so_far
           /\ north_new_counter' =
                IF new THEN north_new_counter + 1 ELSE north_new_counter
           /\ f' = IF new
                   THEN Append(f, NewLine("north", similarity_threshold,
                                          entry, "nor"))
                   ELSE f
           /\ nsm_pos_counter' =
                IF matched THEN CountPos(nsm_pos_counter, entry.pos)
                ELSE nsm_pos_counter
    /\ entry_i' = entry_i + 1
    /\ UNCHANGED <<psm_words, nsm_words, threshholds, threshold_i, loop_pc,
                   pite_matches_so_far, psm_pos_counter, psm_words_matched,
                   pite_new_counter>>

\* lines 328-333: the North Saami summary; the next threshold follows
NorthSummary ==
    /\ loop_pc = "north"
    /\ entry_i > Len(nsm_words)
    /\ IF SummaryDividesByZero(Len(nsm_words), Len(nsm_words_matched),
                               nsm_pos_counter)
       THEN /\ loop_pc' = "ZeroDivisionError"
            /\ UNCHANGED <<f, entry_i, threshold_i>>
       ELSE /\ f' = f
                    \o <<SummaryLine("north", similarity_threshold,
                                     Len(nsm_words_matched), Len(nsm_words),
                                     north_new_counter)>>
                    \o PosLines(nsm_pos_counter, Len(nsm_words_matched))
                    \o <<BlankLine>>
            /\ entry_i' = 1
            /\ threshold_i' = threshold_i + 1
            /\ loop_pc' = "for"
    /\ UNCHANGED <<psm_words, nsm_words, threshholds,
                   pite_matches_so_far, north_matches_so_far,
                   psm_pos_counter, nsm_pos_counter, psm_words_matched,
                   nsm_words_matched, pite_new_counter, north_new_counter>>

\* line 335: the loop is over, the report is closed
CloseReport ==
    /\ loop_pc = "for"
    /\ threshold_i > Len(threshholds)
    /\ loop_pc' = "closed"
    /\ UNCHANGED <<psm_words, nsm_words, threshholds, threshold_i, entry_i, f,
                   pite_matches_so_far, north_matches_so_far,
                   psm_pos_counter, nsm_pos_counter, psm_words_matched,
                   nsm_words_matched, pite_new_counter, north_new_counter>>

\* all lists of at most n elements of S
Lists(S, n) == UNION {[1..k -> S] : k \in 0..n}

\* The word lists the loop is run on.  psm_words comes from
\* PiteWordlistReader.feed (line 264): stripped non-empty words, a Swedish
\* translation or none.  nsm_words comes from readWordlistFile (line 268).
Word_ab == <<"a", "b">>
Word_b == <<"b">>
Word_aab == <<"a", "a", "b">>

PiteEntries ==
    {[word |-> Word_ab, pos |-> Noun,
      translations |-> [k \in {"swe"} |-> Word_ab]],
     [word |-> Word_ab, pos |-> Verb,
      translations |-> [k \in {"swe", "eng"} |-> Word_b]],
     [word |-> Word_b, pos |-> ProperNoun,
      translations |-> [k \in {"swe"} |-> Word_b]],
     [word |-> Word_b, pos |-> Noun, translations |-> <<>>],
     [word |-> Word_aab, pos |-> Noun,
      translations |-> [k \in {"swe"} |-> Word_ab]]}

NorthEntries ==
    {[word |-> Word_aab, pos |-> Noun,
      translations |-> [k \in {"nor"} |-> Word_ab]],
     [word |-> Word_aab, pos |-> ProperNoun,
      translations |-> [k \in {"nor", "eng"} |-> Word_aab]],
     [word |-> Word_b, pos |-> Other,
      translations |-> [k \in {"eng"} |-> Word_b]]}

---------------------------------------------------------------------------
(* PiteWordlistReader *)

Str_subst == <<"s", "u", "b", "s", "t">>
Str_verb == <<"v", "e", "r", "b">>
Str_konj == <<"k", "o", "n", "j">>
Str_adj == <<"a", "d", "j">>
Str_adj_attr == <<"a", "d", "j", ":", "a", "t", "t", "r">>
Str_adj_pred == <<"a", "d", "j", ":", "p", "r", "e", "d">>
Str_adj_attr_pred == <<"a", "d", "j", ":", "a", "t", "t", "r", "/", "p", "r", "e", "d">>
Str_adv == <<"a", "d", "v">>
Str_num == <<"n", "u", "m">>
Str_ege == <<"e", "g", "e">>
Str_Engl == <<"E", "n", "g", "l", ".">>
Str_Swed == <<"S", "w", "e", "d", ".">>
Str_Norw == <<"N", "o", "r", "w", ".">>

Conjunction == <<"C", "o", "n", "j", "u", "n", "c", "t", "i", "o", "n">>
Adjective == <<"A", "d", "j", "e", "c", "t", "i", "v", "e">>
Adverb == <<"A", "d", "v", "e", "r", "b">>
Numeral == <<"N", "u", "m", "e", "r", "a", "l">>

\* swedish_parts_of_speech.get(key, 'Other')
swedish_parts_of_speech_get(key) ==
    CASE key = Str_subst -> Noun
      [] key = Str_verb -> Verb
      [] key = Str_konj -> Conjunction
      [] key \in {Str_adj, Str_adj_attr, Str_adj_pred, Str_adj_attr_pred}
            -> Adjective
      [] key = Str_adv -> Adverb
      [] key = Str_num -> Numeral
      [] OTHER -> Other

\* lines 109-114: the part of speech read from the third line
PitePos(data) ==
    IF prefix(strip_chars(strip(data), {"(", ")"}), 3) = Str_ege
    THEN ProperNoun
    ELSE swedish_parts_of_speech_get(
            split_first(strip_chars(strip(data), {"(", ")"}), ")"))

\* entries with its last element replaced
SetLast(list, entry) == [list EXCEPT ![Len(list)] = entry]

\* a pop that takes the first element
pop_first(list) ==
    [rest |-> SubSeq(list, 2, Len(list)), item |-> list[1]]

\* list.pop(): the list without its last element, and that element
pop(list) ==
    [rest |-> SubSeq(list, 1, Len(list) - 1), item |-> list[Len(list)]]

\* lines 89-92: handle_starttag(tag, attrs)
PiteStartTag(tag, menu1) ==
    /\ feed_pc = "feeding"
    /\ reading_entry' = IF tag = "p" /\ menu1 THEN TRUE ELSE reading_entry
    /\ UNCHANGED <<entries, line_num, last_line, popped, feed_pc>>

\* lines 125-128: handle_endtag(tag)
PiteEndTag(tag) ==
    /\ feed_pc = "feeding"
    /\ IF tag = "p"
       THEN /\ line_num' = 0
            /\ reading_entry' = FALSE
       ELSE UNCHANGED <<line_num, reading_entry>>
    /\ UNCHANGED <<entries, last_line, popped, feed_pc>>

\* lines 102-114: what the second and the third line do to entries
PiteAfterLine(list, n, data) ==
    IF n = 2
    THEN Append(list, [DictEntry EXCEPT !.word = strip(data)])
    ELSE IF n = 3
    THEN SetLast(list, [list[Len(list)] EXCEPT !.pos = PitePos(data)])
    ELSE list

\* lines 117-122: the translation that follows the name of a language
PiteTranslation(entry, last, data) ==
    LET e1 == IF last = Str_Engl
              THEN [entry EXCEPT !.translations =
                      SetItem(@, "eng", strip(split_first(data, "(")))]
              ELSE entry
    IN  IF last = Str_Swed
        THEN [e1 EXCEPT !.translations =
                SetItem(@, "swe", strip(split_first(data, "(")))]
        ELSE IF last = Str_Norw
        THEN [e1 EXCEPT !.translations =
                SetItem(@, "nor",
                        strip(split_first(split_first(data, "["), "(")))]
        ELSE e1

\* the last line names a language, so lines 117-122 index entries[-1]
PiteLabelSeen(last) == last \in {Str_Engl, Str_Swed, Str_Norw}

\* lines 94-123: handle_data(data)
PiteData(data) ==
    /\ feed_pc = "feeding"
    /\ IF ~reading_entry \/ strip(data) = <<>>
       THEN UNCHANGED <<entries, line_num, last_line, feed_pc>>
       ELSE LET n == line_num + 1
                after == PiteAfterLine(entries, n, data)
            IN  /\ n <= MaxPiteLines
                /\ n = 2 => Len(entries) < MaxPiteEntries
                /\ line_num' = n
                /\ IF PiteLabelSeen(last_line) /\ after = <<>>
                   THEN \* entries[-1] of an empty list
                        /\ feed_pc' = "IndexError"
                        /\ UNCHANGED <<entries, last_line>>
                   ELSE /\ entries' =
                             IF PiteLabelSeen(last_line)
                             THEN SetLast(after,
                                    PiteTranslation(after[Len(after)],
                                                    last_line, data))
                             ELSE after
                        /\ last_line' = strip(data)
                        /\ feed_pc' = feed_pc
    /\ UNCHANGED <<reading_entry, popped>>

\* lines 130-134: the markup is used up; feed pops the last entry and returns
PiteFeedReturn ==
    /\ feed_pc = "feeding"
    /\ IF entries = <<>>
       THEN \* pop from an empty list
            /\ feed_pc' = "IndexError"
            /\ UNCHANGED <<entries, popped>>
       ELSE /\ entries' = pop(entries).rest
            /\ popped' = pop(entries).item
            /\ feed_pc' = "returned"
    /\ UNCHANGED <<reading_entry, line_num, last_line>>

\* The texts of the markup: a blank one, a part of speech in parentheses
\* with blanks around it, and the name of a language.
PiteTexts ==
    {<<" ">>,
     <<" ", "(", "s", "u", "b", "s", "t", ")", " ">>,
     <<"S", "w", "e", "d", ".">>}

PiteTags == {"p", "b"}

---------------------------------------------------------------------------
(* LuleDictReader *)

\* the instances of LuleDictReader that may be constructed
LuleReaders == {1, 2}

\* lines 160 and 165: the headword and the translation taken from a text
LuleWord(data) == strip(split_first(data, " "))

LuleTranslation(data) ==
    strip(split_first(split_first(split_first(data, ","), ";"), "("))

\* lines 145-146: LuleDictReader(); the instance has no attribute of its own
\* yet, so it reads the class attributes of lines 140-143
LuleNew(r) ==
    /\ lule_pc = "running"
    /\ r \notin lule_made
    /\ lule_made' = lule_made \cup {r}
    /\ lule_reading_entry' = [lule_reading_entry EXCEPT ![r] = FALSE]
    /\ td_num' = [td_num EXCEPT ![r] = 0]
    /\ spans_seen' = [spans_seen EXCEPT ![r] = 0]
    /\ lule_skipped' = 0
    /\ UNCHANGED <<LuleDictReader_entries, lule_pc>>

\* lines 148-155: handle_starttag(tag, attrs) of instance r; row says that
\* attrs holds one of the two row classes
LuleStartTag(r, tag, row) ==
    /\ lule_pc = "running"
    /\ r \in lule_made
    /\ LET opens == tag = "tr" /\ row
           reading == IF opens THEN TRUE ELSE lule_reading_entry[r]
           td == IF tag = "td" /\ reading THEN td_num[r] + 1 ELSE td_num[r]
           spans == IF td # 0 /\ tag = "span"
                    THEN spans_seen[r] + 1 ELSE spans_seen[r]
       IN  /\ opens => Len(LuleDictReader_entries) < MaxLuleEntries
           /\ td <= MaxLuleCount
           /\ spans <= MaxLuleCount
           /\ lule_reading_entry' = [lule_reading_entry EXCEPT ![r] = reading]
           /\ LuleDictReader_entries' =
                IF opens THEN Append(LuleDictReader_entries, DictEntry)
                ELSE LuleDictReader_entries
           /\ td_num' = [td_num EXCEPT ![r] = td]
           /\ spans_seen' = [spans_seen EXCEPT ![r] = spans]
    /\ lule_skipped' = 0
    /\ UNCHANGED <<lule_made, lule_pc>>

\* handle_data without the test of line 162: the text 1 is a translation
\* like any other
LuleDataTakesOne(r, data) ==
    /\ lule_pc = "running"
    /\ r \in lule_made
    /\ LET sets_word == td_num[r] = 1 /\ spans_seen[r] = 1
           in_second == td_num[r] = 2 /\ spans_seen[r] = 1
           sets_nor == in_second
           e0 == LuleDictReader_entries[Len(LuleDictReader_entries)]
           e1 == IF sets_word THEN [e0 EXCEPT !.word = LuleWord(data)]
                 ELSE e0
           e2 == IF sets_nor
                 THEN [e1 EXCEPT !.translations =
                         SetItem(@, "nor", LuleTranslation(data))]
                 ELSE e1
       IN  IF ~lule_reading_entry[r]
           THEN /\ lule_skipped' = 0
                /\ UNCHANGED <<LuleDictReader_entries, spans_seen, lule_pc>>
           ELSE IF (sets_word \/ sets_nor) /\ LuleDictReader_entries = <<>>
           THEN \* entries[-1] of an empty list
                /\ lule_pc' = "IndexError"
                /\ lule_skipped' = 0
                /\ UNCHANGED <<LuleDictReader_entries, spans_seen>>
           ELSE /\ LuleDictReader_entries' =
                     IF sets_word \/ sets_nor
                     THEN SetLast(LuleDictReader_entries, e2)
                     ELSE LuleDictReader_entries
                /\ lule_skipped' = 0
                /\ UNCHANGED <<spans_seen, lule_pc>>
    /\ UNCHANGED <<lule_made, lule_reading_entry, td_num>>

\* lines 157-165: handle_data(data) of instance r
LuleData(r, data) ==
    /\ lule_pc = "running"
    /\ r \in lule_made
    /\ LET sets_word == td_num[r] = 1 /\ spans_seen[r] = 1
           in_second == td_num[r] = 2 /\ spans_seen[r] = 1
           sets_nor == in_second /\ data # <<"1">>
           e0 == LuleDictReader_entries[Len(LuleDictReader_entries)]
           e1 == IF sets_word THEN [e0 EXCEPT !.word = LuleWord(data)]
                 ELSE e0
           e2 == IF sets_nor
                 THEN [e1 EXCEPT !.translations =
                         SetItem(@, "nor", LuleTranslation(data))]
                 ELSE e1
       IN  IF ~lule_reading_entry[r]
           THEN /\ lule_skipped' = 0
                /\ UNCHANGED <<LuleDictReader_entries, spans_seen, lule_pc>>
           ELSE IF (sets_word \/ sets_nor) /\ LuleDictReader_entries = <<>>
           THEN \* entries[-1] of an empty list
                /\ lule_pc' = "IndexError"
                /\ lule_skipped' = 0
                /\ UNCHANGED <<LuleDictReader_entries, spans_seen>>
           ELSE /\ LuleDictReader_entries' =
                     IF sets_word \/ sets_nor
                     THEN SetLast(LuleDictReader_entries, e2)
                     ELSE LuleDictReader_entries
                /\ spans_seen' =
                     IF in_second /\ data = <<"1">>
                     THEN [spans_seen EXCEPT ![r] = @ - 1]
                     ELSE spans_seen
                /\ lule_skipped' =
                     IF in_second /\ data = <<"1">> THEN r ELSE 0
                /\ UNCHANGED lule_pc
    /\ UNCHANGED <<lule_made, lule_reading_entry, td_num>>

\* lines 167-174: handle_endtag(tag) of instance r
LuleEndTag(r, tag) ==
    /\ lule_pc = "running"
    /\ r \in lule_made
    /\ IF tag = "tr"
       THEN /\ lule_reading_entry' = [lule_reading_entry EXCEPT ![r] = FALSE]
            /\ td_num' = [td_num EXCEPT ![r] = 0]
            /\ LuleDictReader_entries' =
                 IF /\ LuleDictReader_entries # <<>>
                    /\ LuleDictReader_entries[Len(LuleDictReader_entries)].word
                         = <<>>
                 THEN pop(LuleDictReader_entries).rest
                 ELSE LuleDictReader_entries
       ELSE UNCHANGED <<lule_reading_entry, td_num, LuleDictReader_entries>>
    /\ spans_seen' = IF tag = "td" THEN [spans_seen EXCEPT ![r] = 0]
                     ELSE spans_seen
    /\ lule_skipped' = 0
    /\ UNCHANGED <<lule_made, lule_pc>>

\* The texts of the markup: the literal 1, a headword followed by a blank,
\* and a text that begins with a blank and holds a comma.
LuleTexts ==
    {<<"1">>,
     <<"a", "b", " ", "c">>,
     <<" ", "b", ",", "c">>}

LuleTags == {"tr", "td", "span"}

---------------------------------------------------------------------------
(* writeWordlistFile and readWordlistFile *)

\* lines 200-201: the line written for an entry
WordlistLine(entry) ==
    entry.word \o <<";">> \o entry.pos
    \o <<";">> \o GetDefault(entry.translations, "swe", <<>>)
    \o <<";">> \o GetDefault(entry.translations, "nor", <<>>)
    \o <<";">> \o GetDefault(entry.translations, "eng", <<>>)
    \o <<"\n">>

\* lines 197-201: the file writeWordlistFile leaves
RECURSIVE WordlistFile(_)
WordlistFile(list) ==
    IF list = <<>> THEN <<>>
    ELSE WordlistLine(Head(list)) \o WordlistFile(Tail(list))

\* lines 209-211: line[:-1], decoded and split on ';' into at most 5 fields
LineContents(line) == split(SubSeq(line, 1, Len(line) - 1), ";", 4)

\* lines 212-219 index contents[0] to contents[4]
LineRaises(line) == line # <<>> /\ Len(LineContents(line)) < 5

\* the translations of lines 214-219: a key for each field that is not empty
LineTranslations(contents) ==
    LET field == [k \in Langs |->
                    IF k = "swe" THEN contents[3]
                    ELSE IF k = "nor" THEN contents[4] ELSE contents[5]]
    IN  [k \in {l \in Langs : field[l] # <<>>} |-> field[k]]

\* lines 210-220: the entry made from a line
LineEntry(line) ==
    LET contents == LineContents(line)
    IN  [word |-> contents[1], pos |-> contents[2],
         translations |-> LineTranslations(contents)]

\* lines 207-221: the entries of the lines that are not empty
ReadEntries(lines) ==
    LET kept == SelectSeq(lines, LAMBDA line : line # <<>>)
    IN  [k \in 1..Len(kept) |-> LineEntry(kept[k])]

\* writeWordlistFile(word_list, filename)
writeWordlistFile ==
    /\ codec_pc = "start"
    /\ file' = WordlistFile(word_list)
    /\ codec_pc' = "written"
    /\ UNCHANGED <<word_list, read_list>>

\* readWordlistFile(filename), on the file just written or on one found on
\* disk
readWordlistFile ==
    /\ codec_pc \in {"written", "on_disk"}
    /\ LET lines == readlines(file)
       IN  IF \E k \in 1..Len(lines) : LineRaises(lines[k])
           THEN /\ codec_pc' = "IndexError"
                /\ UNCHANGED read_list
           ELSE /\ read_list' = ReadEntries(lines)
                /\ codec_pc' = IF codec_pc = "written" THEN "read_back"
                               ELSE "read"
    /\ UNCHANGED <<word_list, file>>

\* The entries handed to writeWordlistFile: no field holds a ';'; a
\* translation may be the empty string, as PiteWordlistReader leaves it for a
\* text that begins with '('.
CodecTranslations ==
    {t \in UNION {[D -> {<<>>, <<"x">>}] : D \in SUBSET Langs} :
        \A k \in DOMAIN t : t[k] = <<>> => k = "swe"}

CodecEntries ==
    [word : {<<"a">>, <<"b">>}, pos : {<<>>, Noun},
     translations : CodecTranslations]

\* the characters of a file found on disk
FileChars == {"a", ";", "\n"}

---------------------------------------------------------------------------
(* The idle state of each part of the program *)

\* the threshold loop not entered
LoopIdle ==
    /\ psm_words = <<>>
    /\ nsm_words = <<>>
    /\ threshholds = <<>>
    /\ pite_matches_so_far = <<>>
    /\ north_matches_so_far = <<>>
    /\ psm_pos_counter = <<>>
    /\ nsm_pos_counter = <<>>
    /\ psm_words_matched = <<>>
    /\ nsm_words_matched = <<>>
    /\ pite_new_counter = 0
    /\ north_new_counter = 0
    /\ f = <<>>
    /\ threshold_i = 0
    /\ entry_i = 0
    /\ loop_pc = "idle"

\* similar not called
SimIdle ==
    /\ sim_a = None
    /\ sim_b = None
    /\ sim_ab = Unset
    /\ sim_ba = Unset

\* PiteWordlistReader() not made
PiteIdle ==
    /\ reading_entry = FALSE
    /\ entries = <<>>
    /\ line_num = 0
    /\ last_line = <<>>
    /\ popped = DictEntry
    /\ feed_pc = "idle"

\* the class LuleDictReader as lines 136-143 define it, no instance made
LuleIdle ==
    /\ LuleDictReader_entries = <<>>
    /\ lule_made = {}
    /\ lule_reading_entry = [r \in LuleReaders |-> FALSE]
    /\ td_num = [r \in LuleReaders |-> 0]
    /\ spans_seen = [r \in LuleReaders |-> 0]
    /\ lule_skipped = 0
    /\ lule_pc = "idle"

\* neither function of the codec called
CodecIdle ==
    /\ word_list = <<>>
    /\ file = <<>>
    /\ read_list = <<>>
    /\ codec_pc = "idle"

\* remove_repeats not called
RepeatsIdle ==
    /\ rr_input = <<>>
    /\ rr_output = <<>>
    /\ rr_again = <<>>
    /\ rr_pc = "idle"

---------------------------------------------------------------------------
(* The specifications *)

InitSimilar ==
    /\ RepeatsIdle
    /\ CodecIdle
    /\ LuleIdle
    /\ LoopIdle
    /\ PiteIdle
    /\ sim_a \in SimArgs
    /\ sim_b \in SimArgs
    /\ sim_ab = Unset
    /\ sim_ba = Unset

NextSimilar == CallSimilar \/ CallSimilarSwapped

SpecSimilar == InitSimilar /\ [][NextSimilar]_vars

\* lines 256-282: the state when the loop is entered
LoopStart ==
    /\ psm_words \in Lists(PiteEntries, MaxPiteWords)
    /\ nsm_words \in Lists(NorthEntries, MaxNorthWords)
    /\ pite_matches_so_far = <<>>
    /\ north_matches_so_far = <<>>
    /\ psm_pos_counter = <<>>
    /\ nsm_pos_counter = <<>>
    /\ psm_words_matched = <<>>
    /\ nsm_words_matched = <<>>
    /\ pite_new_counter = 0
    /\ north_new_counter = 0
    /\ f = <<>>
    /\ threshold_i = 1
    /\ entry_i = 1
    /\ loop_pc = "for"

\* the loop with the threshholds of the source
InitLoop ==
    /\ RepeatsIdle
    /\ CodecIdle
    /\ LuleIdle
    /\ SimIdle
    /\ PiteIdle
    /\ threshholds = Threshholds
    /\ LoopStart

\* The loop with other descending lists: a threshold of 0 alone, and after
\* the threshholds of the source.
ThreshholdLists == {<<0>>, Threshholds \o <<0>>}

InitLoopAny ==
    /\ RepeatsIdle
    /\ CodecIdle
    /\ LuleIdle
    /\ SimIdle
    /\ PiteIdle
    /\ threshholds \in ThreshholdLists
    /\ LoopStart

NextLoop ==
    \/ BeginThreshold /\ UNCHANGED <<simVars, piteVars, luleVars, codecVars, repeatVars>>
    \/ PiteEntry /\ UNCHANGED <<simVars, piteVars, luleVars, codecVars, repeatVars>>
    \/ PiteSummary /\ UNCHANGED <<simVars, piteVars, luleVars, codecVars, repeatVars>>
    \/ NorthEntry /\ UNCHANGED <<simVars, piteVars, luleVars, codecVars, repeatVars>>
    \/ NorthSummary /\ UNCHANGED <<simVars, piteVars, luleVars, codecVars, repeatVars>>
    \/ CloseReport /\ UNCHANGED <<simVars, piteVars, luleVars, codecVars, repeatVars>>

Spec == InitLoop /\ [][NextLoop]_vars

SpecLoopAny == InitLoopAny /\ [][NextLoop]_vars

\* lines 79-87: a new reader, and feed called on it
InitPite ==
    /\ RepeatsIdle
    /\ CodecIdle
    /\ LuleIdle
    /\ SimIdle
    /\ LoopIdle
    /\ reading_entry = FALSE
    /\ entries = <<>>
    /\ line_num = 0
    /\ last_line = <<>>
    /\ popped = DictEntry
    /\ feed_pc = "feeding"

NextPite ==
    \/ \E tag \in PiteTags, menu1 \in BOOLEAN :
         PiteStartTag(tag, menu1) /\ UNCHANGED <<simVars, loopVars, luleVars, codecVars, repeatVars>>
    \/ \E tag \in PiteTags : PiteEndTag(tag) /\ UNCHANGED <<simVars, loopVars, luleVars, codecVars, repeatVars>>
    \/ \E data \in PiteTexts : PiteData(data) /\ UNCHANGED <<simVars, loopVars, luleVars, codecVars, repeatVars>>
    \/ PiteFeedReturn /\ UNCHANGED <<simVars, loopVars, luleVars, codecVars, repeatVars>>

SpecPite == InitPite /\ [][NextPite]_vars

\* lines 136-143: the class is defined; instances are made and fed markup
InitLule ==
    /\ RepeatsIdle
    /\ CodecIdle
    /\ SimIdle
    /\ LoopIdle
    /\ PiteIdle
    /\ LuleDictReader_entries = <<>>
    /\ lule_made = {}
    /\ lule_reading_entry = [r \in LuleReaders |-> FALSE]
    /\ td_num = [r \in LuleReaders |-> 0]
    /\ spans_seen = [r \in LuleReaders |-> 0]
    /\ lule_skipped = 0
    /\ lule_pc = "running"

NextLule ==
    \/ \E r \in LuleReaders :
         LuleNew(r) /\ UNCHANGED <<simVars, loopVars, piteVars, codecVars, repeatVars>>
    \/ \E r \in LuleReaders, tag \in LuleTags, row \in BOOLEAN :
         LuleStartTag(r, tag, row) /\ UNCHANGED <<simVars, loopVars, piteVars, codecVars, repeatVars>>
    \/ \E r \in LuleReaders, data \in LuleTexts :
         LuleData(r, data) /\ UNCHANGED <<simVars, loopVars, piteVars, codecVars, repeatVars>>
    \/ \E r \in LuleReaders, tag \in LuleTags :
         LuleEndTag(r, tag) /\ UNCHANGED <<simVars, loopVars, piteVars, codecVars, repeatVars>>

SpecLule == InitLule /\ [][NextLule]_vars

\* a list to write and read back, or a file found on disk to read
InitCodec ==
    /\ RepeatsIdle
    /\ SimIdle
    /\ LoopIdle
    /\ PiteIdle
    /\ LuleIdle
    /\ read_list = <<>>
    /\ \/ /\ codec_pc = "start"
          /\ word_list \in Lists(CodecEntries, MaxCodecWords)
          /\ file = <<>>
       \/ /\ codec_pc = "on_disk"
          /\ word_list = <<>>
          /\ file \in Strings(FileChars, MaxFileLen)

NextCodec ==
    \/ writeWordlistFile /\ UNCHANGED <<simVars, loopVars, piteVars, luleVars, repeatVars>>
    \/ readWordlistFile /\ UNCHANGED <<simVars, loopVars, piteVars, luleVars, repeatVars>>

SpecCodec == InitCodec /\ [][NextCodec]_vars

\* a list of tuples, as re.findall returns at line 192
InitRepeats ==
    /\ SimIdle
    /\ LoopIdle
    /\ PiteIdle
    /\ LuleIdle
    /\ CodecIdle
    /\ rr_input \in Lists(RepeatItems, MaxRepeatsLen)
    /\ rr_output = <<>>
    /\ rr_again = <<>>
    /\ rr_pc = "start"

NextRepeats == CallRemoveRepeats \/ CallRemoveRepeatsAgain

SpecRepeats == InitRepeats /\ [][NextRepeats]_vars

---------------------------------------------------------------------------
(* What the claims about the threshold loop speak of *)

\* the 'new' lines written so far for a dialect, over all thresholds
NewLines(dialect) ==
    SelectSeq(f, LAMBDA line : line.kind = "new" /\ line.dialect = dialect)

\* no two elements of a sequence of lines have the same word
DistinctWords(lines) ==
    \A j, k \in 1..Len(lines) : j # k => lines[j].word # lines[k].word

\* how many entries of psm_words the Pite Saami loop of this threshold has
\* tested at most, and of nsm_words the North Saami loop
PiteTested ==
    IF loop_pc = "pite" THEN entry_i - 1 ELSE Len(psm_words)

NorthTested ==
    IF loop_pc = "north" THEN entry_i - 1
    ELSE IF loop_pc = "pite" THEN 0
    ELSE Len(nsm_words)

\* the number of the first n entries of words that satisfy Test
CountFirst(words, n, Test(_)) ==
    Cardinality({k \in 1..n : k <= Len(words) /\ Test(words[k])})

---------------------------------------------------------------------------
(* C1: over a run of the threshold loop, neither matches-so-far list ever
   shrinks, and no headword is written twice to the 'new' lines of a
   dialect, whatever the thresholds already processed. *)
C1_Monotone ==
    /\ [](DistinctWords(NewLines("pite")) /\ DistinctWords(NewLines("north")))
    /\ [][/\ Len(pite_matches_so_far') >= Len(pite_matches_so_far)
          /\ Len(north_matches_so_far') >= Len(north_matches_so_far)]_vars

\* the run is over, and two different Pite Saami entries of one headword have
\* both matched, one of them reported as new
C1_Witness ==
    /\ loop_pc = "closed"
    /\ Len(NewLines("pite")) >= 1
    /\ \E j, k \in 1..Len(psm_words) :
        /\ j < k
        /\ psm_words[j] # psm_words[k]
        /\ psm_words[j].word = psm_words[k].word
        /\ PiteMatches(psm_words[j], 50)
        /\ PiteMatches(psm_words[k], 50)

(* C2: an entry whose pos is "Proper noun" is never counted as matched, at
   any threshold, 0 included: the matched lists hold no more words than the
   entries tested that are not proper nouns, and no pos counter, 'new' line
   or matches-so-far list holds a proper noun. *)
C2_ProperNounExcluded ==
    /\ Len(psm_words_matched)
         <= CountFirst(psm_words, PiteTested, LAMBDA e : e.pos # ProperNoun)
    /\ Len(nsm_words_matched)
         <= CountFirst(nsm_words, NorthTested, LAMBDA e : e.pos # ProperNoun)
    /\ \A k \in 1..Len(nsm_words_matched) :
         nsm_words_matched[k].pos # ProperNoun
    /\ \A k \in 1..Len(psm_pos_counter) : psm_pos_counter[k].pos # ProperNoun
    /\ \A k \in 1..Len(nsm_pos_counter) : nsm_pos_counter[k].pos # ProperNoun
    /\ \A k \in 1..Len(pite_matches_so_far) :
         pite_matches_so_far[k].pos # ProperNoun
    /\ \A k \in 1..Len(north_matches_so_far) :
         north_matches_so_far[k].pos # ProperNoun
    /\ \A k \in 1..Len(f) : f[k].kind = "new" => f[k].pos # ProperNoun

\* at threshold 0 the Pite Saami loop has just tested a proper noun whose
\* score reaches the threshold
C2_Witness ==
    /\ loop_pc = "pite"
    /\ similarity_threshold = 0
    /\ entry_i > 1
    /\ psm_words[entry_i - 1].pos = ProperNoun
    /\ ScoreAtLeast(similar(Some(psm_words[entry_i - 1].word),
                            Get(psm_words[entry_i - 1].translations, "swe")),
                    similarity_threshold)

(* C3: the summary step never faults: with an empty word list or with no
   word matched the percentages are still written and the loop goes on. *)
C3_SummaryCompletes == loop_pc # "ZeroDivisionError"

(* C4: an entry with no translation in the comparison language scores 0 and
   is never counted as matched or reported as new: the matched lists hold no
   more words than the entries tested that have the translation, and no
   'new' line or matches-so-far list holds an entry without it. *)
C4_MissingTranslation ==
    /\ \A k \in 1..Len(psm_words) :
         "swe" \notin DOMAIN psm_words[k].translations
           => similar(Some(psm_words[k].word),
                      Get(psm_words[k].translations, "swe")) = <<0, 1>>
    /\ Len(psm_words_matched)
         <= CountFirst(psm_words, PiteTested,
                       LAMBDA e : "swe" \in DOMAIN e.translations)
    /\ Len(nsm_words_matched)
         <= CountFirst(nsm_words, NorthTested,
                       LAMBDA e : "nor" \in DOMAIN e.translations)
    /\ \A k \in 1..Len(pite_matches_so_far) :
         "swe" \in DOMAIN pite_matches_so_far[k].translations
    /\ \A k \in 1..Len(north_matches_so_far) :
         "nor" \in DOMAIN north_matches_so_far[k].translations
    /\ \A k \in 1..Len(f) : f[k].kind = "new" => f[k].translation # QQQ

\* the run is over with an entry in each list that has no translation in the
\* comparison language
C4_Witness ==
    /\ loop_pc = "closed"
    /\ \E k \in 1..Len(psm_words) :
         "swe" \notin DOMAIN psm_words[k].translations
    /\ \E k \in 1..Len(nsm_words) :
         "nor" \notin DOMAIN nsm_words[k].translations

(* C5: what readWordlistFile returns for the file that writeWordlistFile
   wrote is the list written: the same entries in the same order, each with
   the same word, pos and translations, a key with an empty value included. *)
C5_RoundTrip ==
    /\ codec_pc = "read_back" => read_list = word_list
    /\ file = WordlistFile(word_list) => codec_pc # "IndexError"

(* C6: similar is symmetric: once both calls have returned, similar(a, b)
   and similar(b, a) are the same score. *)
C6_Symmetric ==
    (sim_ab # Unset /\ sim_ba # Unset) => sim_ab = sim_ba


(* C7: feed returns the entries accumulated during the traversal, in their
   order, without the last one: while the markup is read the entries before
   the last are left as they are and none is removed, and the return removes
   the last entry and no other. *)
C7_DiscardsLast ==
    [][/\ (feed_pc = "feeding" /\ feed_pc' = "feeding")
            => /\ Len(entries') >= Len(entries)
               /\ \A k \in 1..(Len(entries) - 1) : entries'[k] = entries[k]
       /\ (feed_pc = "feeding" /\ feed_pc' = "returned")
            => /\ entries # <<>>
               /\ entries' = SubSeq(entries, 1, Len(entries) - 1)
               /\ popped' = entries[Len(entries)]]_vars

\* feed has returned two entries and dropped a third that differs from both
C7_Witness ==
    /\ feed_pc = "returned"
    /\ Len(entries) = 2
    /\ popped.word # <<>>
    /\ popped # entries[1]
    /\ popped # entries[2]
    /\ entries[1] # entries[2]

(* C8: feed never raises, whatever the sequence of tags and texts: it
   returns a list of entries, which may be empty. *)
C8_FeedNeverRaises == feed_pc # "IndexError"

(* C9: readWordlistFile never raises, whatever the lines of the file. *)
C9_ReadNeverRaises == codec_pc # "IndexError"

(* C10: no entry of LuleDictReader.entries ever has an empty word, whatever
   the sequence of events processed so far, an unclosed row included. *)
C10_NoEmptyWord ==
    \A k \in 1..Len(LuleDictReader_entries) :
        LuleDictReader_entries[k].word # <<>>

\* the index of the first occurrence of item in list
FirstIndex(list, item) ==
    CHOOSE k \in 1..Len(list) :
        /\ list[k] = item
        /\ \A j \in 1..(k - 1) : list[j] # item

(* C11: remove_repeats returns every distinct element of its input exactly
   once, in the order of the first occurrences, and removing the repeats
   of what it returned changes nothing. *)
C11_FirstOccurrences ==
    rr_pc \in {"once", "twice"} =>
        /\ \A k \in 1..Len(rr_input) :
               Cardinality({j \in 1..Len(rr_output) :
                               rr_output[j] = rr_input[k]}) = 1
        /\ \A j \in 1..Len(rr_output) :
               \E k \in 1..Len(rr_input) : rr_input[k] = rr_output[j]
        /\ \A i, j \in 1..Len(rr_output) :
               i < j => FirstIndex(rr_input, rr_output[i])
                          < FirstIndex(rr_input, rr_output[j])
        /\ rr_pc = "twice" => rr_again = rr_output

\* the example list with a repeat in the middle has gone through twice
C11_Witness ==
    /\ rr_pc = "twice"
    /\ rr_input = << <<"a", 1>>, <<"b", 2>>, <<"a", 1>>, <<"c", 3>> >>
    /\ rr_output = << <<"a", 1>>, <<"b", 2>>, <<"c", 3>> >>
    /\ rr_again = rr_output

\* a step of the loop over psm_words, and one of the loop over nsm_words
PiteStep ==
    /\ loop_pc = "pite"
    /\ entry_i <= Len(psm_words)
    /\ entry_i' = entry_i + 1

NorthStep ==
    /\ loop_pc = "north"
    /\ entry_i <= Len(nsm_words)
    /\ entry_i' = entry_i + 1

\* some element of list has the word of entry
WordIn(entry, list) == \E k \in 1..Len(list) : list[k].word = entry.word

\* the entries of both word lists
AllEntries ==
    {psm_words[k] : k \in 1..Len(psm_words)}
        \cup {nsm_words[k] : k \in 1..Len(nsm_words)}

(* C12: two entries are equal exactly when their words are equal,
   whatever their parts of speech and translations; and an entry that
   matches is left out of the matches so far exactly when an entry of the
   same word is already among them. *)
C12_WeakEquality ==
    /\ [](\A x, y \in AllEntries : DictEntryEq(x, y) <=> x.word = y.word)
    /\ [][/\ (PiteStep /\ PiteMatches(psm_words[entry_i],
                                      similarity_threshold))
              => (pite_matches_so_far' = pite_matches_so_far
                    <=> WordIn(psm_words[entry_i], pite_matches_so_far))
          /\ (NorthStep /\ NorthMatches(nsm_words[entry_i],
                                        similarity_threshold))
              => (north_matches_so_far' = north_matches_so_far
                    <=> WordIn(nsm_words[entry_i], north_matches_so_far))
         ]_vars

\* an entry that matches has just been tested and left out, for an entry of
\* the same word and other attributes was among the matches so far
C12_Witness ==
    /\ loop_pc = "pite"
    /\ entry_i > 1
    /\ entry_i <= Len(psm_words) + 1
    /\ LET entry == psm_words[entry_i - 1]
       IN  /\ PiteMatches(entry, similarity_threshold)
           /\ WordIn(entry, pite_matches_so_far)
           /\ \A k \in 1..Len(pite_matches_so_far) :
                  pite_matches_so_far[k] # entry

(* C13: similar(x, x) is exactly 1.0 for every string x that is not
   empty. *)
C13_Reflexive ==
    (sim_a = sim_b /\ sim_a # None /\ sim_a # Some(<<>>))
        => /\ sim_ab # Unset => (sim_ab[1] = sim_ab[2] /\ sim_ab[2] > 0)
           /\ sim_ba # Unset => (sim_ba[1] = sim_ba[2] /\ sim_ba[2] > 0)

\* similar has been called on a string of two different characters, each
\* twice, and on the same string
C13_Witness ==
    /\ sim_a = Some(<<"a", "b", "a", "b">>)
    /\ sim_b = sim_a
    /\ sim_ab = <<8, 8>>

\* entry matched at one of the thresholds before the current one
PiteMatchedBefore(entry) ==
    \E t \in 1..(threshold_i - 1) : PiteMatches(entry, threshholds[t])

NorthMatchedBefore(entry) ==
    \E t \in 1..(threshold_i - 1) : NorthMatches(entry, threshholds[t])

(* C14 as stated: an entry is reported as new at a threshold exactly when
   it matches at that threshold and did not match at any stricter threshold
   already processed, entries that share their word with another entry of
   the list included. *)
C14_NewWhenFirstMatched ==
    [][/\ PiteStep =>
            (f' # f <=> /\ PiteMatches(psm_words[entry_i],
                                       similarity_threshold)
                        /\ ~PiteMatchedBefore(psm_words[entry_i]))
       /\ NorthStep =>
            (f' # f <=> /\ NorthMatches(nsm_words[entry_i],
                                        similarity_threshold)
                        /\ ~NorthMatchedBefore(nsm_words[entry_i]))
      ]_vars

(* C14 amended: an entry is reported as new at a threshold exactly when it
   matches at that threshold and no entry of its word, itself included,
   matched at a stricter threshold already processed, or stands before it
   in the list and matches at this threshold. *)
C14_NewWhenWordFirstMatched ==
    [][/\ PiteStep =>
            (f' # f <=>
               /\ PiteMatches(psm_words[entry_i], similarity_threshold)
               /\ \A k \in 1..Len(psm_words) :
                     psm_words[k].word = psm_words[entry_i].word =>
                        /\ ~PiteMatchedBefore(psm_words[k])
                        /\ k < entry_i =>
                             ~PiteMatches(psm_words[k],
                                          similarity_threshold))
       /\ NorthStep =>
            (f' # f <=>
               /\ NorthMatches(nsm_words[entry_i], similarity_threshold)
               /\ \A k \in 1..Len(nsm_words) :
                     nsm_words[k].word = nsm_words[entry_i].word =>
                        /\ ~NorthMatchedBefore(nsm_words[k])
                        /\ k < entry_i =>
                             ~NorthMatches(nsm_words[k],
                                           similarity_threshold))
      ]_vars

\* An entry has just been tested that matches at this threshold and at no
\* stricter one, and it was not reported: an entry of the same word and
\* another translation was reported at a stricter threshold.
C14_Witness ==
    /\ loop_pc = "pite"
    /\ entry_i > 1
    /\ entry_i <= Len(psm_words) + 1
    /\ pite_new_counter = 0
    /\ LET entry == psm_words[entry_i - 1]
       IN  /\ PiteMatches(entry, similarity_threshold)
           /\ ~PiteMatchedBefore(entry)
           /\ \E k \in 1..Len(pite_matches_so_far) :
                 /\ pite_matches_so_far[k].word = entry.word
                 /\ pite_matches_so_far[k].translations # entry.translations

\* the sum of the values of a pos counter
RECURSIVE SumCounts(_)
SumCounts(counter) ==
    IF counter = <<>> THEN 0 ELSE Head(counter).n + SumCounts(Tail(counter))

\* entry is no proper noun and its word scores at least the current
\* threshold against its translation into lang
ScoresAtThreshold(entry, lang) ==
    /\ entry.pos # ProperNoun
    /\ ScoreAtLeast(similar(Some(entry.word), Get(entry.translations, lang)),
                    similarity_threshold)

(* C15: while a threshold is being processed, the matched count of each
   dialect is the number of the entries tested so far that are no proper
   nouns and score at least the threshold, already among the matches so
   far or not; the values of the pos counter, empty when the threshold
   begins, add up to the matched count; and the count of new matches is at
   most the matched count. *)
C15_MatchedCounts ==
    loop_pc \in {"pite", "north"} =>
        /\ Len(psm_words_matched)
             = CountFirst(psm_words, PiteTested,
                          LAMBDA e : ScoresAtThreshold(e, "swe"))
        /\ SumCounts(psm_pos_counter) = Len(psm_words_matched)
        /\ pite_new_counter <= Len(psm_words_matched)
        /\ Len(nsm_words_matched)
             = CountFirst(nsm_words, NorthTested,
                          LAMBDA e : ScoresAtThreshold(e, "nor"))
        /\ SumCounts(nsm_pos_counter) = Len(nsm_words_matched)
        /\ north_new_counter <= Len(nsm_words_matched)

\* both entries of psm_words, of one part of speech, have matched at a
\* threshold at which neither is new
C15_Witness ==
    /\ loop_pc = "pite"
    /\ entry_i = 3
    /\ Len(psm_words_matched) = 2
    /\ psm_pos_counter = <<[pos |-> Noun, n |-> 2]>>
    /\ pite_new_counter = 0
    /\ Len(pite_matches_so_far) = 2

\* the index of the first threshold at which an entry of words with the
\* word w satisfies Matches, and the index of the first entry of the word
\* that satisfies it at the threshold of index t
FirstThreshold(words, Matches(_, _), w) ==
    MinOf({t \in 1..Len(threshholds) :
              \E k \in 1..Len(words) :
                  words[k].word = w /\ Matches(words[k], threshholds[t])})

FirstPosition(words, Matches(_, _), w, t) ==
    MinOf({k \in 1..Len(words) :
              words[k].word = w /\ Matches(words[k], threshholds[t])})

\* the words of words that satisfy Matches at one of the first n thresholds
WordsMatched(words, Matches(_, _), n) ==
    {words[k].word : k \in {j \in 1..Len(words) :
        \E t \in 1..n : Matches(words[j], threshholds[t])}}

\* list holds, for each word matched at the first n thresholds, the first
\* entry of that word that matched at the first threshold the word matched
\* at, by ascending threshold index and then by ascending position
OrderedByFirstMatch(list, words, Matches(_, _), n) ==
    LET ft == [p \in 1..Len(list) |->
                 FirstThreshold(words, Matches, list[p].word)]
        fp == [p \in 1..Len(list) |->
                 FirstPosition(words, Matches, list[p].word, ft[p])]
    IN  /\ {list[p].word : p \in 1..Len(list)}
              = WordsMatched(words, Matches, n)
        /\ \A p \in 1..Len(list) : list[p] = words[fp[p]]
        /\ \A p, q \in 1..Len(list) :
              p < q => (ft[p] < ft[q] \/ (ft[p] = ft[q] /\ fp[p] < fp[q]))

\* the number of thresholds whose loop over psm_words is over
PiteThresholdsDone ==
    IF loop_pc = "north" THEN threshold_i ELSE threshold_i - 1

(* C16: the thresholds are taken one after the other in the descending
   order of the list and the entries in the order of their list, so that
   between two loops each list of matches so far holds one entry per word
   matched, ordered by the threshold at which the word first matched and
   then by position in the word list, the entry being the first of its
   word to match at that threshold; the new lines of the report follow
   the same order. *)
C16_OrderOfFirstMatches ==
    /\ [](loop_pc \in {"for", "north", "closed"} =>
            /\ OrderedByFirstMatch(pite_matches_so_far, psm_words,
                                   PiteMatches, PiteThresholdsDone)
            /\ \A p \in 1..Len(pite_matches_so_far) :
                  NewLines("pite")[p].word = pite_matches_so_far[p].word)
    /\ [](loop_pc \in {"for", "closed"} =>
            /\ OrderedByFirstMatch(north_matches_so_far, nsm_words,
                                   NorthMatches, threshold_i - 1)
            /\ \A p \in 1..Len(north_matches_so_far) :
                  NewLines("north")[p].word = north_matches_so_far[p].word)
    /\ [][/\ threshold_i' # threshold_i =>
               /\ threshold_i' = threshold_i + 1
               /\ threshold_i' <= Len(threshholds) =>
                    threshholds[threshold_i'] < threshholds[threshold_i]
          /\ (entry_i' # entry_i /\ entry_i' # 1) => entry_i' = entry_i + 1
         ]_vars

\* the report is closed and the second entry of psm_words, which matched at
\* a stricter threshold than the first, stands first among the matches
C16_Witness ==
    /\ loop_pc = "closed"
    /\ Len(psm_words) = 2
    /\ pite_matches_so_far = <<psm_words[2], psm_words[1]>>
    /\ psm_words[1].word # psm_words[2].word

(* C17: in the second cell of a row with the span counter at 1, the text 1
   is never stored as the translation: handling it changes no entry and
   brings the counter to 0; no counter is ever negative; and any other
   text handled there with the counter at 1, as the text of the next span
   of the cell is, becomes the Norwegian translation of the last entry. *)
C17_FalsePositiveSkipped ==
    /\ [](\A r \in LuleReaders : spans_seen[r] >= 0)
    /\ [][\A r \in LuleReaders :
            (lule_reading_entry[r] /\ td_num[r] = 2 /\ spans_seen[r] = 1) =>
               /\ LuleData(r, <<"1">>) =>
                    /\ LuleDictReader_entries' = LuleDictReader_entries
                    /\ spans_seen'[r] = 0
                    /\ lule_pc' = lule_pc
               /\ \A data \in LuleTexts \ {<<"1">>} :
                    (LuleData(r, data) /\ lule_pc' = "running") =>
                       /\ LuleDictReader_entries' # <<>>
                       /\ Get(LuleDictReader_entries'[
                                Len(LuleDictReader_entries')].translations,
                              "nor") = Some(LuleTranslation(data))
                       /\ spans_seen' = spans_seen
         ]_vars

\* the text 1 has just been skipped in the second cell of a row whose entry
\* has its word and no translation yet
C17_Witness ==
    /\ lule_skipped \in LuleReaders
    /\ td_num[lule_skipped] = 2
    /\ spans_seen[lule_skipped] = 0
    /\ LuleDictReader_entries # <<>>
    /\ LET last == LuleDictReader_entries[Len(LuleDictReader_entries)]
       IN  last.word # <<>> /\ Get(last.translations, "nor") = None

(* C18: a text handled inside a block changes no entry but the one whose
   word was taken in that block; so the first text of a block, handled
   before the block has given any word, changes no entry, even when the
   last text of an earlier block was the name of a language. *)
C18_TextStaysInBlock ==
    [][(/\ feed_pc = "feeding"
        /\ feed_pc' = "feeding"
        /\ line_num = 0
        /\ line_num' = 1)
       => entries' = entries]_vars

(* C19: the span counter of an instance is 0 whenever a row has started
   recording and no cell of it has been opened yet, so that a span left
   open by an earlier row, closed without its cell being closed, cannot
   make a text of the new row count as the text of a first span. *)
C19_CounterZeroAtRowStart ==
    \A r \in LuleReaders :
        (lule_reading_entry[r] /\ td_num[r] = 0) => spans_seen[r] = 0

\* self.entries of instance r: no method assigns self.entries, so the
\* attribute lookup always ends at the class attribute of line 141
LuleEntriesOf(r) == LuleDictReader_entries

(* C20: every instance of LuleDictReader has an entry list of its own: a
   new instance starts with an empty list, and a tag or a text handled by
   one instance leaves the list of every other instance as it is. *)
C20_OwnEntries ==
    [][\A r \in LuleReaders :
          /\ (r \notin lule_made /\ r \in lule_made')
                => LuleEntriesOf(r)' = <<>>
          /\ \A o \in lule_made \ {r} :
                (\/ \E tag \in LuleTags, row \in BOOLEAN :
                       LuleStartTag(r, tag, row)
                 \/ \E data \in LuleTexts : LuleData(r, data)
                 \/ \E tag \in LuleTags : LuleEndTag(r, tag))
                => LuleEntriesOf(o)' = LuleEntriesOf(o)
      ]_vars

===========================================================================
